---- MODULE Spec2Model ----
(***************************************************************************)
(* PEP Quiz Arcade (src/arcade.py): the quiz / reward / power-up / shop    *)
(* state machine.                                                          *)
(*                                                                         *)
(* The page is one script, main(), that the framework runs from top to     *)
(* bottom once per user interaction.  A button call returns True in the    *)
(* run its click started; the click is possible only on a button that the  *)
(* PREVIOUS run put on the page enabled.  The `disabled=` argument of a    *)
(* button is evaluated where the script reaches the call, i.e. before the  *)
(* handlers that stand later in the script have run.  st.rerun() abandons  *)
(* the run and starts a fresh one in which no button is clicked.           *)
(*                                                                         *)
(* session_state is the program's st.session_state; ui is the page the     *)
(* last completed run left on the screen (which buttons are there and      *)
(* enabled), and radio is the index the radio widget holds (that of the    *)
(* last Submit, 0 on a page drawn since).  Two history variables, of which *)
(* the code keeps neither:                                                 *)
(* fifty_bought counts the 50/50 purchases of the current game, and extras *)
(* counts the session's purchases and repeated submits, which the bound    *)
(* MaxExtras limits.                                                       *)
(***************************************************************************)
EXTENDS Integers, Sequences, FiniteSets, TLC

VARIABLES session_state, ui, radio, fifty_bought, extras, review

vars == <<session_state, ui, radio, fifty_bought, extras, review>>

\* ------------------------------------------------------------ constants
DEFAULT_NUM_QUESTIONS == 7
MIN_QUESTIONS_PER_GAME == 3
MAX_QUESTIONS_PER_GAME == 10
BASE_COIN_REWARD == 5
MAX_STREAK_BONUS == 5
HINT_COST == 3
SKIP_COST == 4
FIFTY_FIFTY_COST == 5
BADGE_SCORE_APPRENTICE == 5
BADGE_SCORE_PRO == 7
BADGE_STREAK_THRESHOLD == 3

\* Badge identifiers (the source's strings without their emoji).
BADGE_MONSTER_COLLECTOR == "Monster Collector"
BADGE_APPRENTICE == "PEP Apprentice"
BADGE_PRO == "PEP Pro"
BADGE_STREAK_MASTER == "Streak Master (3+)"
BADGE_NO_HINT_HERO == "No-Hint Hero"
BADGE_5050_USER == "50/50 User"

\* ---------------------------------------------------------------- bounds
\* Purchases (power-ups, monsters) and submits of an already answered
\* question in one session.
MaxExtras == 2
\* Outcomes of the random source drawn when a game's questions are sampled.
SampleDraws == 1
\* Outcomes of the random source drawn when 50/50 samples the wrong options.
FiftyDraws == 3
\* Slider positions above MIN_QUESTIONS_PER_GAME the user moves to.
SliderSpan == 0
\* Entries of MONSTER_SHOP offered (the cheapest first, as listed).
ShopSize == 2
\* Largest streak for which the reward is computed.
MaxStreak == 12

\* ------------------------------------------------------------------ data
\* Each question by its id, its number of options and its answer index.
QUESTION_POOL ==
    << [id |-> "line_length", n_options |-> 4, answer_idx |-> 0],
       [id |-> "imports_order", n_options |-> 4, answer_idx |-> 0],
       [id |-> "naming_functions", n_options |-> 4, answer_idx |-> 1],
       [id |-> "whitespace", n_options |-> 4, answer_idx |-> 1],
       [id |-> "docstring", n_options |-> 4, answer_idx |-> 1],
       [id |-> "comparisons", n_options |-> 4, answer_idx |-> 2],
       [id |-> "trailing_whitespace", n_options |-> 4, answer_idx |-> 2],
       [id |-> "indentation", n_options |-> 4, answer_idx |-> 1],
       [id |-> "tabs_vs_spaces", n_options |-> 4, answer_idx |-> 1],
       [id |-> "class_naming", n_options |-> 4, answer_idx |-> 1],
       [id |-> "constant_naming", n_options |-> 4, answer_idx |-> 1],
       [id |-> "blank_lines", n_options |-> 4, answer_idx |-> 2],
       [id |-> "spaces_after_comma", n_options |-> 4, answer_idx |-> 1],
       [id |-> "boolean_singleton", n_options |-> 4, answer_idx |-> 2],
       [id |-> "imports_at_top", n_options |-> 4, answer_idx |-> 2],
       [id |-> "inline_comments", n_options |-> 4, answer_idx |-> 1],
       [id |-> "docstring_quotes", n_options |-> 4, answer_idx |-> 2],
       [id |-> "module_naming", n_options |-> 4, answer_idx |-> 1],
       [id |-> "complicated_expressions", n_options |-> 4, answer_idx |-> 2],
       [id |-> "shebang_encoding", n_options |-> 4, answer_idx |-> 2] >>

ALL_MONSTERS ==
    << [id |-> "pep_snek", price |-> 20],
       [id |-> "lint_lizard", price |-> 35],
       [id |-> "docstring_dragon", price |-> 50],
       [id |-> "whitespace_wraith", price |-> 60] >>

MONSTER_SHOP == SubSeq(ALL_MONSTERS, 1, IF ShopSize < 4 THEN ShopSize ELSE 4)

\* ---------------------------------------------------------------- helpers
Range(f) == {f[i] : i \in DOMAIN f}

Min(a, b) == IF a < b THEN a ELSE b

\* list.remove(x): the list without its first x.
RECURSIVE Remove(_, _)
Remove(list, x) ==
    IF list = <<>> THEN <<>>
    ELSE IF Head(list) = x THEN Tail(list)
    ELSE <<Head(list)>> \o Remove(Tail(list), x)

\* random.sample(population, k): k elements at distinct positions of the
\* population, in the order drawn.  The random source is the draw r; the
\* outcomes modelled are the k consecutive elements from position r on
\* (cyclically).
random_sample(population, k, r) ==
    [i \in 1..k |-> population[((r + i - 1) % Len(population)) + 1]]

\* The ids of the pool, in pool order.
PoolIds == [i \in 1..Len(QUESTION_POOL) |-> QUESTION_POOL[i].id]

KeyError == [id |-> "KeyError", n_options |-> 0, answer_idx |-> 0]

\* For each id of the pool, the position of the first question that has it:
\* where the loop of get_question_by_id returns.
FirstMatch ==
    [id \in Range(PoolIds) |->
        CHOOSE j \in 1..Len(QUESTION_POOL) :
            /\ QUESTION_POOL[j].id = id
            /\ \A h \in 1..(j - 1) : QUESTION_POOL[h].id # id]

get_question_by_id(question_id) ==
    IF question_id \in DOMAIN FirstMatch
    THEN QUESTION_POOL[FirstMatch[question_id]]
    ELSE KeyError

\* ------------------------------------------------------------------ state
init_state ==
    [started |-> FALSE,
     num_questions |-> DEFAULT_NUM_QUESTIONS,
     question_ids |-> <<>>,
     q_index |-> 0,
     score |-> 0,
     coins |-> 0,
     streak |-> 0,
     answered |-> FALSE,
     last_correct |-> "None",
     used_5050 |-> FALSE,
     eliminated_options |-> {},
     hints_used |-> 0,
     skips_used |-> 0,
     badges |-> {},
     shop_buys |-> <<>>,
     show_hint |-> FALSE,
     monsters_owned |-> <<>>,
     selected_monster |-> "None"]

\* Mutant of start_new_game: the coin balance is not reset.
start_new_game_keeps_coins(s, r) ==
    LET num_questions == Min(s.num_questions, Len(QUESTION_POOL))
        picked_ids == random_sample(PoolIds, num_questions, r)
    IN [s EXCEPT !.started = TRUE, !.score = 0, !.streak = 0, !.q_index = 0,
                 !.answered = FALSE, !.last_correct = "None",
                 !.used_5050 = FALSE, !.eliminated_options = {},
                 !.hints_used = 0, !.skips_used = 0, !.badges = {},
                 !.shop_buys = <<>>, !.show_hint = FALSE,
                 !.question_ids = picked_ids]

\* Mutant of start_new_game: the slider's value is ignored and the default
\* number of questions is sampled.
start_new_game_default_count(s, r) ==
    LET num_questions == Min(DEFAULT_NUM_QUESTIONS, Len(QUESTION_POOL))
        picked_ids == random_sample(PoolIds, num_questions, r)
    IN [s EXCEPT !.started = TRUE, !.score = 0, !.coins = 0, !.streak = 0,
                 !.q_index = 0, !.answered = FALSE, !.last_correct = "None",
                 !.used_5050 = FALSE, !.eliminated_options = {},
                 !.hints_used = 0, !.skips_used = 0, !.badges = {},
                 !.shop_buys = <<>>, !.show_hint = FALSE,
                 !.question_ids = picked_ids]

\* Mutant of start_new_game: the monsters are reset with the game.
start_new_game_resets_monsters(s, r) ==
    LET num_questions == Min(s.num_questions, Len(QUESTION_POOL))
        picked_ids == random_sample(PoolIds, num_questions, r)
    IN [s EXCEPT !.started = TRUE, !.score = 0, !.coins = 0, !.streak = 0,
                 !.q_index = 0, !.answered = FALSE, !.last_correct = "None",
                 !.used_5050 = FALSE, !.eliminated_options = {},
                 !.hints_used = 0, !.skips_used = 0, !.badges = {},
                 !.shop_buys = <<>>, !.show_hint = FALSE,
                 !.question_ids = picked_ids,
                 !.monsters_owned = <<>>, !.selected_monster = "None"]

start_new_game(s, r) ==
    LET num_questions == Min(s.num_questions, Len(QUESTION_POOL))
        picked_ids == random_sample(PoolIds, num_questions, r)
    IN [s EXCEPT !.started = TRUE,
                 !.score = 0,
                 !.coins = 0,
                 !.streak = 0,
                 !.q_index = 0,
                 !.answered = FALSE,
                 !.last_correct = "None",
                 !.used_5050 = FALSE,
                 !.eliminated_options = {},
                 !.hints_used = 0,
                 !.skips_used = 0,
                 !.badges = {},
                 !.shop_buys = <<>>,
                 !.show_hint = FALSE,
                 !.question_ids = picked_ids]

\* Mutant of award_badges: PEP Pro needs a score above the threshold.
award_badges_pro_above_threshold(s) ==
    [s EXCEPT !.badges =
        @ \cup (IF s.score >= BADGE_SCORE_APPRENTICE THEN {BADGE_APPRENTICE} ELSE {})
          \cup (IF s.score > BADGE_SCORE_PRO THEN {BADGE_PRO} ELSE {})
          \cup (IF s.streak >= BADGE_STREAK_THRESHOLD THEN {BADGE_STREAK_MASTER} ELSE {})
          \cup (IF s.hints_used = 0 /\ s.q_index = Len(s.question_ids)
                THEN {BADGE_NO_HINT_HERO} ELSE {})
          \cup (IF s.used_5050 THEN {BADGE_5050_USER} ELSE {})]

\* Mutant of award_badges: Streak Master is decided by the number of right
\* answers, not by the streak at the end.
award_badges_streak_by_score(s) ==
    [s EXCEPT !.badges =
        @ \cup (IF s.score >= BADGE_SCORE_APPRENTICE THEN {BADGE_APPRENTICE} ELSE {})
          \cup (IF s.score >= BADGE_SCORE_PRO THEN {BADGE_PRO} ELSE {})
          \cup (IF s.score >= BADGE_STREAK_THRESHOLD THEN {BADGE_STREAK_MASTER} ELSE {})
          \cup (IF s.hints_used = 0 /\ s.q_index = Len(s.question_ids)
                THEN {BADGE_NO_HINT_HERO} ELSE {})
          \cup (IF s.used_5050 THEN {BADGE_5050_USER} ELSE {})]

\* Mutant of award_badges: No-Hint Hero is given for completion alone.
award_badges_hero_ignores_hints(s) ==
    [s EXCEPT !.badges =
        @ \cup (IF s.score >= BADGE_SCORE_APPRENTICE THEN {BADGE_APPRENTICE} ELSE {})
          \cup (IF s.score >= BADGE_SCORE_PRO THEN {BADGE_PRO} ELSE {})
          \cup (IF s.streak >= BADGE_STREAK_THRESHOLD THEN {BADGE_STREAK_MASTER} ELSE {})
          \cup (IF s.q_index = Len(s.question_ids)
                THEN {BADGE_NO_HINT_HERO} ELSE {})
          \cup (IF s.used_5050 THEN {BADGE_5050_USER} ELSE {})]

\* Mutant of award_badges: No-Hint Hero also requires that nothing was
\* skipped.
award_badges_hero_needs_no_skips(s) ==
    [s EXCEPT !.badges =
        @ \cup (IF s.score >= BADGE_SCORE_APPRENTICE THEN {BADGE_APPRENTICE} ELSE {})
          \cup (IF s.score >= BADGE_SCORE_PRO THEN {BADGE_PRO} ELSE {})
          \cup (IF s.streak >= BADGE_STREAK_THRESHOLD THEN {BADGE_STREAK_MASTER} ELSE {})
          \cup (IF s.hints_used = 0 /\ s.skips_used = 0
                   /\ s.q_index = Len(s.question_ids)
                THEN {BADGE_NO_HINT_HERO} ELSE {})
          \cup (IF s.used_5050 THEN {BADGE_5050_USER} ELSE {})]

\* Mutant of award_badges: PEP Pro is given to a holder of PEP Apprentice.
award_badges_pro_after_apprentice(s) ==
    [s EXCEPT !.badges =
        @ \cup (IF s.score >= BADGE_SCORE_APPRENTICE THEN {BADGE_APPRENTICE} ELSE {})
          \cup (IF s.score >= BADGE_SCORE_PRO /\ BADGE_APPRENTICE \in s.badges
                THEN {BADGE_PRO} ELSE {})
          \cup (IF s.streak >= BADGE_STREAK_THRESHOLD THEN {BADGE_STREAK_MASTER} ELSE {})
          \cup (IF s.hints_used = 0 /\ s.q_index = Len(s.question_ids)
                THEN {BADGE_NO_HINT_HERO} ELSE {})
          \cup (IF s.used_5050 THEN {BADGE_5050_USER} ELSE {})]

\* Mutant of award_badges: the badge set is replaced by the badges of this
\* evaluation.
award_badges_replaces(s) ==
    [s EXCEPT !.badges =
        (IF s.score >= BADGE_SCORE_APPRENTICE THEN {BADGE_APPRENTICE} ELSE {})
          \cup (IF s.score >= BADGE_SCORE_PRO THEN {BADGE_PRO} ELSE {})
          \cup (IF s.streak >= BADGE_STREAK_THRESHOLD THEN {BADGE_STREAK_MASTER} ELSE {})
          \cup (IF s.hints_used = 0 /\ s.q_index = Len(s.question_ids)
                THEN {BADGE_NO_HINT_HERO} ELSE {})
          \cup (IF s.used_5050 THEN {BADGE_5050_USER} ELSE {})]

award_badges(s) ==
    [s EXCEPT !.badges =
        @ \cup (IF s.score >= BADGE_SCORE_APPRENTICE THEN {BADGE_APPRENTICE} ELSE {})
          \cup (IF s.score >= BADGE_SCORE_PRO THEN {BADGE_PRO} ELSE {})
          \cup (IF s.streak >= BADGE_STREAK_THRESHOLD THEN {BADGE_STREAK_MASTER} ELSE {})
          \cup (IF s.hints_used = 0 /\ s.q_index = Len(s.question_ids)
                THEN {BADGE_NO_HINT_HERO} ELSE {})
          \cup (IF s.used_5050 THEN {BADGE_5050_USER} ELSE {})]

reset_question_powerups(s) ==
    [s EXCEPT !.answered = FALSE,
              !.used_5050 = FALSE,
              !.eliminated_options = {},
              !.show_hint = FALSE,
              !.shop_buys = <<>>]

\* The wrong option indices of a question, in increasing order.
wrong_indices(question) ==
    LET RECURSIVE upto(_)
        upto(n) == IF n = 0 THEN <<>>
                   ELSE upto(n - 1) \o (IF n - 1 # question.answer_idx
                                         THEN <<n - 1>> ELSE <<>>)
    IN upto(question.n_options)

\* Mutant of apply_5050: the options to hide are sampled among all the
\* option indices, the answer's included.
apply_5050_any_option(s, question, r) ==
    LET all_indices == [i \in 1..question.n_options |-> i - 1]
        num_to_eliminate == Min(2, Len(wrong_indices(question)))
        eliminated == Range(random_sample(all_indices, num_to_eliminate, r))
    IN [s EXCEPT !.eliminated_options = eliminated, !.used_5050 = TRUE]

apply_5050(s, question, r) ==
    LET num_to_eliminate == Min(2, Len(wrong_indices(question)))
        eliminated == Range(random_sample(wrong_indices(question), num_to_eliminate, r))
    IN [s EXCEPT !.eliminated_options = eliminated, !.used_5050 = TRUE]

\* The visible option indices, in increasing order.
get_visible_option_indices(s, question) ==
    LET RECURSIVE upto(_)
        upto(n) == IF n = 0 THEN <<>>
                   ELSE upto(n - 1) \o (IF s.used_5050 /\ (n - 1) \in s.eliminated_options
                                         THEN <<>> ELSE <<n - 1>>)
    IN upto(question.n_options)

\* Mutant of coins_for_correct: the bonus is not capped.
coins_for_correct_uncapped(s) ==
    LET streak_bonus == s.streak
    IN BASE_COIN_REWARD + streak_bonus

\* Mutant of coins_for_correct: the bonus is that of the streak before the
\* answer was counted.
coins_for_correct_previous_streak(s) ==
    LET streak_bonus == Min(s.streak - 1, MAX_STREAK_BONUS)
    IN BASE_COIN_REWARD + streak_bonus

coins_for_correct(s) ==
    LET streak_bonus == Min(s.streak, MAX_STREAK_BONUS)
    IN BASE_COIN_REWARD + streak_bonus

\* ------------------------------------------------------ button handlers
\* Each is the body of one `if st.button(...)` of main().
hint_clicked(s) ==
    [s EXCEPT !.coins = @ - HINT_COST,
              !.hints_used = @ + 1,
              !.shop_buys = Append(@, "Hint"),
              !.show_hint = TRUE]

skip_clicked(s) ==
    [s EXCEPT !.coins = @ - SKIP_COST,
              !.skips_used = @ + 1,
              !.shop_buys = Append(@, "Skip"),
              !.last_correct = "None",
              !.streak = 0,
              !.answered = TRUE]

fifty_clicked(s) ==
    [s EXCEPT !.coins = @ - FIFTY_FIFTY_COST,
              !.shop_buys = Append(@, "50/50")]

\* Mutant of submit_clicked: a wrong answer earns the base reward.
submit_clicked_consolation(s, question, option_indices, selected_index) ==
    LET chosen_original_idx == option_indices[selected_index + 1]
        is_correct == chosen_original_idx = question.answer_idx
        s1 == [s EXCEPT !.answered = TRUE,
                        !.last_correct = IF is_correct THEN "True" ELSE "False"]
    IN IF is_correct
       THEN LET s2 == [s1 EXCEPT !.score = @ + 1, !.streak = @ + 1]
            IN [s2 EXCEPT !.coins = @ + coins_for_correct(s2)]
       ELSE [s1 EXCEPT !.streak = 0, !.coins = @ + BASE_COIN_REWARD]

\* Mutant of submit_clicked: the index chosen among the visible options is
\* taken for the original option index.
submit_clicked_unmapped(s, question, option_indices, selected_index) ==
    LET is_correct == selected_index = question.answer_idx
        s1 == [s EXCEPT !.answered = TRUE,
                        !.last_correct = IF is_correct THEN "True" ELSE "False"]
    IN IF is_correct
       THEN LET s2 == [s1 EXCEPT !.score = @ + 1, !.streak = @ + 1]
            IN [s2 EXCEPT !.coins = @ + coins_for_correct(s2)]
       ELSE [s1 EXCEPT !.streak = 0]

submit_clicked(s, question, option_indices, selected_index) ==
    LET chosen_original_idx == option_indices[selected_index + 1]
        is_correct == chosen_original_idx = question.answer_idx
        s1 == [s EXCEPT !.answered = TRUE,
                        !.last_correct = IF is_correct THEN "True" ELSE "False"]
    IN IF is_correct
       THEN LET s2 == [s1 EXCEPT !.score = @ + 1, !.streak = @ + 1]
            IN [s2 EXCEPT !.coins = @ + coins_for_correct(s2)]
       ELSE [s1 EXCEPT !.streak = 0]

\* Mutant of advance: the per-question flags are left as they are.
advance_keeps_flags(s) ==
    [s EXCEPT !.q_index = @ + 1]

\* Mutant of advance: the flags are reset and the index stays.
advance_stays(s) ==
    reset_question_powerups(s)

\* Mutant of advance: the index moves on by two.
advance_by_two(s) ==
    reset_question_powerups([s EXCEPT !.q_index = @ + 2])

\* Next, and the automatic advance after Skip.
advance(s) ==
    reset_question_powerups([s EXCEPT !.q_index = @ + 1])

select_clicked(s, monster) ==
    [s EXCEPT !.selected_monster = monster.id]

\* Mutant of buy_clicked: the monster is selected but not added to
\* monsters_owned.
buy_clicked_forgets_owned(s, monster) ==
    [s EXCEPT !.coins = @ - monster.price,
              !.selected_monster = monster.id,
              !.badges = @ \cup {BADGE_MONSTER_COLLECTOR}]

buy_clicked(s, monster) ==
    [s EXCEPT !.coins = @ - monster.price,
              !.monsters_owned = Append(@, monster.id),
              !.selected_monster = monster.id,
              !.badges = @ \cup {BADGE_MONSTER_COLLECTOR}]

\* --------------------------------------------------- the disabled= flags
hint_enabled(s) ==
    ~(s.coins < HINT_COST \/ ~s.started \/ s.answered)

skip_enabled(s) ==
    ~(s.coins < SKIP_COST \/ ~s.started \/ s.answered)

fifty_enabled(s) ==
    ~(s.coins < FIFTY_FIFTY_COST \/ ~s.started \/ s.answered \/ s.used_5050)

\* The monsters whose button is "Select" (owned, not the selected one).
select_enabled(s) ==
    {MONSTER_SHOP[i].id : i \in {j \in 1..Len(MONSTER_SHOP) :
        /\ MONSTER_SHOP[j].id \in Range(s.monsters_owned)
        /\ s.selected_monster # MONSTER_SHOP[j].id}}

\* Mutant of buy_enabled: the price is not compared with the coins.
buy_enabled_ignores_price(s) ==
    {MONSTER_SHOP[i].id : i \in {j \in 1..Len(MONSTER_SHOP) :
        MONSTER_SHOP[j].id \notin Range(s.monsters_owned)}}

\* The monsters whose button is an enabled "Buy" (not owned, affordable).
buy_enabled(s) ==
    {MONSTER_SHOP[i].id : i \in {j \in 1..Len(MONSTER_SHOP) :
        /\ MONSTER_SHOP[j].id \notin Range(s.monsters_owned)
        /\ ~(s.coins < MONSTER_SHOP[j].price)}}

get_monster(monster_id) ==
    MONSTER_SHOP[CHOOSE i \in 1..Len(MONSTER_SHOP) : MONSTER_SHOP[i].id = monster_id]

\* ------------------------------------------------------------- the script
\* An event is the widget the user acted on and its argument: the slider's
\* new value, the index chosen in the radio when Submit is pressed, the
\* monster of a Select or Buy button.
Event(w, arg) == [w |-> w, arg |-> arg]

NoEvent == Event("none", 0)

\* The page of a run that has not reached the question or results section.
NoPage ==
    [hint |-> FALSE, skip |-> FALSE, fifty |-> FALSE, submit |-> FALSE,
     next |-> FALSE, play_again |-> FALSE, n_options |-> 0,
     select |-> {}, buy |-> {}]

\* The power-up shop column: each button is rendered (its disabled flag
\* fixed) and then, if it is the one clicked, its handler runs.
power_up_shop(s, ev) ==
    LET hint == hint_enabled(s)
        s1 == IF ev.w = "Hint" THEN hint_clicked(s) ELSE s
        skip == skip_enabled(s1)
        s2 == IF ev.w = "Skip" THEN skip_clicked(s1) ELSE s1
        fifty == fifty_enabled(s2)
        s3 == IF ev.w = "50/50" THEN fifty_clicked(s2) ELSE s2
    IN [s |-> s3, page |-> [NoPage EXCEPT !.hint = hint, !.skip = skip, !.fifty = fifty]]

RECURSIVE main(_, _, _)

\* The monster shop section, which ends the script.  Select and Buy rerun.
monster_shop(s, page, ev, r) ==
    IF ev.w = "Select" THEN main(select_clicked(s, get_monster(ev.arg)), NoEvent, r)
    ELSE IF ev.w = "Buy" THEN main(buy_clicked(s, get_monster(ev.arg)), NoEvent, r)
    ELSE [s |-> s,
          page |-> [page EXCEPT !.select = select_enabled(s), !.buy = buy_enabled(s)]]

\* The question section: lazy 50/50, radio, Submit, Next.
question_section(s, page, ev, r) ==
    LET question == get_question_by_id(s.question_ids[s.q_index + 1])
        s1 == IF "50/50" \in Range(s.shop_buys) /\ ~s.used_5050
              THEN apply_5050([s EXCEPT !.shop_buys = Remove(@, "50/50")], question, r)
              ELSE s
        option_indices == get_visible_option_indices(s1, question)
        submit == ~s1.answered
        s2 == IF ev.w = "Submit"
              THEN submit_clicked(s1, question, option_indices, ev.arg)
              ELSE s1
        next == s2.answered
    IN IF ev.w = "Next" THEN main(advance(s2), NoEvent, r)
       ELSE monster_shop(s2,
                [page EXCEPT !.submit = submit, !.next = next,
                             !.n_options = Len(option_indices)],
                ev, r)

\* One run of the script for the event ev with the random draw r: the
\* session state it leaves and the page it puts on the screen.
main(s0, ev, r) ==
    LET s1 == IF ev.w = "slider" THEN [s0 EXCEPT !.num_questions = ev.arg] ELSE s0
    IN IF ev.w = "New game" THEN main(start_new_game(s1, r), NoEvent, r)
       ELSE LET p == power_up_shop(s1, ev)
                s == p.s
                total_questions == Len(s.question_ids)
                current_index == s.q_index
            IN IF ~s.started THEN monster_shop(s, p.page, ev, r)
               ELSE IF /\ s.answered
                       /\ s.last_correct = "None"
                       /\ current_index < total_questions
               THEN main(advance(s), NoEvent, r)
               ELSE IF current_index >= total_questions
               THEN IF ev.w = "Play again"
                    THEN main(start_new_game(award_badges(s), r), NoEvent, r)
                    ELSE monster_shop(award_badges(s),
                                      [p.page EXCEPT !.play_again = TRUE], ev, r)
               ELSE question_section(s, p.page, ev, r)

\* The slider's positions.
SliderRange ==
    MIN_QUESTIONS_PER_GAME..Min(MAX_QUESTIONS_PER_GAME, Len(QUESTION_POOL))

\* ------------------------------------------- the code checker (its page)
\* The page of src/code_checker.py keeps nothing between runs; review holds
\* one run of its main() started by the Analyze button: the inputs read from
\* the widgets, where the run waits (pc), what came back, the requests sent
\* to the API so far in this run and how the run ended.

\* str.strip() of a text given as its sequence of characters.
Whitespace == {" ", "\n", "\t"}

RECURSIVE lstrip(_)
lstrip(text) ==
    IF text # <<>> /\ Head(text) \in Whitespace THEN lstrip(Tail(text)) ELSE text

RECURSIVE rstrip(_)
rstrip(text) ==
    IF text # <<>> /\ text[Len(text)] \in Whitespace
    THEN rstrip(SubSeq(text, 1, Len(text) - 1))
    ELSE text

strip(text) == rstrip(lstrip(text))

\* Python values as the page handles them: a dict with its keys, a list
\* with its length, None, a number.
Dict(fields) == [type |-> "dict", fields |-> fields, len |-> Cardinality(DOMAIN fields)]
List(len) == [type |-> "list", fields |-> <<>>, len |-> len]
Number(n) == [type |-> "int", fields |-> <<>>, len |-> n]
None == [type |-> "None", fields |-> <<>>, len |-> 0]

\* bool(value): an empty dict or list, None and 0 are false.
truthy(value) == value.type # "None" /\ value.len # 0

\* The overall scores the analysis answers with: the documented range 0..100
\* and the values next to it on both sides.
Scores == (0 - 1)..101

\* The JSON text of an analysis that holds nothing but its overall score.
score_document(n) == "{\"overall_score\": " \o ToString(n) \o "}"

\* json.loads of the content of a response: the value, or the exception it
\* raises (TypeError for a content of None, JSONDecodeError for a text that
\* is not JSON).
json_loads(content) ==
    CASE content = "None" -> [raises |-> TRUE, value |-> None]
      [] content = "" -> [raises |-> TRUE, value |-> None]
      [] content = "Sure, here is the review" -> [raises |-> TRUE, value |-> None]
      [] content = "{\"language\": " -> [raises |-> TRUE, value |-> None]
      [] content = "{}" -> [raises |-> FALSE, value |-> Dict(<<>>)]
      [] content = "[]" -> [raises |-> FALSE, value |-> List(0)]
      [] content = "[1]" -> [raises |-> FALSE, value |-> List(1)]
      [] content = "null" -> [raises |-> FALSE, value |-> None]
      [] content = "0" -> [raises |-> FALSE, value |-> Number(0)]
      [] content = "{\"language\": \"python\"}"
           -> [raises |-> FALSE, value |-> Dict([language |-> "python"])]
      [] \E n \in Scores : content = score_document(n)
           -> [raises |-> FALSE,
               value |-> Dict([overall_score |->
                                 CHOOSE n \in Scores : content = score_document(n)])]

\* What the API call of run_analysis can end with: an exception, or a
\* completion with this content.
AnalysisResponses ==
    {[raised |-> TRUE, content |-> "None"]}
    \cup {[raised |-> FALSE, content |-> c] :
            c \in {"None", "", "Sure, here is the review", "{\"language\": ",
                   "{}", "[]", "[1]", "null", "0",
                   "{\"language\": \"python\"}"}
                  \cup {score_document(n) : n \in Scores}}

\* What the API call of run_refactor can end with.
RefactorResponses ==
    {[raised |-> TRUE, content |-> "None"],
     [raised |-> FALSE, content |-> "None"],
     [raised |-> FALSE, content |-> "def f(): ..."]}

\* The texts pasted into the text area, character by character.
CodeInputs == {<<>>, <<" ", "\n">>, <<"x">>, <<" ", "x", "\n">>}

\* The positions of the language selectbox that are tried.
LanguageHints == {"Auto", "python"}

get_client(api_key) == IF api_key = "" THEN "None" ELSE "OpenAI"

\* run_analysis once the call has ended: the parsed content, or {} after any
\* exception (of the call or of json.loads), with the error shown.
run_analysis(response) ==
    IF response.raised \/ json_loads(response.content).raises
    THEN [value |-> Dict(<<>>), error |-> TRUE]
    ELSE [value |-> json_loads(response.content).value, error |-> FALSE]

\* run_refactor once the call has ended: the content, or "" after an
\* exception, with the error shown.
run_refactor(response) ==
    IF response.raised
    THEN [value |-> "", error |-> TRUE]
    ELSE [value |-> response.content, error |-> FALSE]

\* No run of the page since it was opened.
NoReview ==
    [pc |-> "idle", outcome |-> "none",
     code_input |-> <<>>, api_key |-> "", generate_refactor |-> FALSE,
     language_hint |-> "Auto", analysis_response |-> "none",
     analysis_result |-> None, detected_language |-> "",
     refactored_code |-> "", errors |-> 0,
     analysis_requests |-> 0, refactor_requests |-> 0, rendered |-> FALSE,
     overall_score |-> 0, quality_label |-> "", quality_color |-> ""]

\* main() from the click on Analyze to the analysis request.
analyze_clicked(code_input, api_key, generate_refactor, language_hint) ==
    LET rv == [NoReview EXCEPT !.code_input = code_input, !.api_key = api_key,
                               !.generate_refactor = generate_refactor,
                               !.language_hint = language_hint]
    IN IF strip(code_input) = <<>> THEN [rv EXCEPT !.outcome = "warning"]
       ELSE IF get_client(api_key) = "None"
       THEN [rv EXCEPT !.outcome = "no client", !.errors = 1]
       ELSE [rv EXCEPT !.pc = "analysis", !.analysis_requests = @ + 1]

\* Mutant of get_quality_level: each threshold belongs to the band below it.
get_quality_level_inclusive(score) ==
    IF score <= 40 THEN [label |-> "Poor", color |-> "#c0392b"]
    ELSE IF score <= 60 THEN [label |-> "Below average", color |-> "#e67e22"]
    ELSE IF score <= 80 THEN [label |-> "Acceptable", color |-> "#f1c40f"]
    ELSE IF score <= 90 THEN [label |-> "Good", color |-> "#27ae60"]
    ELSE [label |-> "Excellent", color |-> "#2ecc71"]

\* The label and the colour of the traffic light (the description, a fixed
\* text per label, is left out).
get_quality_level(score) ==
    IF score < 40 THEN [label |-> "Poor", color |-> "#c0392b"]
    ELSE IF score < 60 THEN [label |-> "Below average", color |-> "#e67e22"]
    ELSE IF score < 80 THEN [label |-> "Acceptable", color |-> "#f1c40f"]
    ELSE IF score < 90 THEN [label |-> "Good", color |-> "#27ae60"]
    ELSE [label |-> "Excellent", color |-> "#2ecc71"]

\* The tabs with the results are drawn; the overview tab shows the overall
\* score (0 when the analysis has none) and its quality level.
render(rv) ==
    LET overall_score == IF "overall_score" \in DOMAIN rv.analysis_result.fields
                         THEN rv.analysis_result.fields.overall_score
                         ELSE 0
        quality == get_quality_level(overall_score)
    IN [rv EXCEPT !.pc = "idle", !.outcome = "results", !.rendered = TRUE,
                  !.overall_score = overall_score,
                  !.quality_label = quality.label,
                  !.quality_color = quality.color]

\* Mutant of analysis_returned: the run goes on after an empty result.
analysis_returned_unchecked(rv, response) ==
    LET analysis == run_analysis(response)
        analysis_result == analysis.value
        rv1 == [rv EXCEPT !.analysis_response =
                              IF response.raised THEN "raised" ELSE response.content,
                          !.analysis_result = analysis_result,
                          !.errors = IF analysis.error THEN @ + 1 ELSE @]
    IN IF analysis_result.type # "dict"
       THEN [rv1 EXCEPT !.pc = "idle", !.outcome = "AttributeError"]
       ELSE LET rv2 == [rv1 EXCEPT !.detected_language =
                            IF "language" \in DOMAIN analysis_result.fields
                            THEN analysis_result.fields.language
                            ELSE IF rv.language_hint # "" THEN rv.language_hint
                            ELSE "text"]
            IN IF rv.generate_refactor
               THEN [rv2 EXCEPT !.pc = "refactor", !.refactor_requests = @ + 1]
               ELSE render(rv2)

\* main() from the end of the analysis call to the refactor request or, if
\* none is asked for, to the results.  analysis_result.get of a value that
\* is not a dict raises AttributeError, which ends the run.
analysis_returned(rv, response) ==
    LET analysis == run_analysis(response)
        analysis_result == analysis.value
        rv1 == [rv EXCEPT !.analysis_response =
                              IF response.raised THEN "raised" ELSE response.content,
                          !.analysis_result = analysis_result,
                          !.errors = IF analysis.error THEN @ + 1 ELSE @]
    IN IF ~truthy(analysis_result)
       THEN [rv1 EXCEPT !.pc = "idle", !.outcome = "no result"]
       ELSE IF analysis_result.type # "dict"
       THEN [rv1 EXCEPT !.pc = "idle", !.outcome = "AttributeError"]
       ELSE LET rv2 == [rv1 EXCEPT !.detected_language =
                            IF "language" \in DOMAIN analysis_result.fields
                            THEN analysis_result.fields.language
                            ELSE IF rv.language_hint # "" THEN rv.language_hint
                            ELSE "text"]
            IN IF rv.generate_refactor
               THEN [rv2 EXCEPT !.pc = "refactor", !.refactor_requests = @ + 1]
               ELSE render(rv2)

\* main() from the end of the refactor call to the results.
refactor_returned(rv, response) ==
    LET refactor == run_refactor(response)
    IN render([rv EXCEPT !.refactored_code = refactor.value,
                         !.errors = IF refactor.error THEN @ + 1 ELSE @])

\* ---------------------------------------------------------------- actions
Init ==
    /\ session_state = main(init_state, NoEvent, 0).s
    /\ ui = main(init_state, NoEvent, 0).page
    /\ radio = 0
    /\ fifty_bought = 0
    /\ extras = 0
    /\ review = NoReview

\* The run of the arcade page started by event ev with random draw r (the
\* code checker is another page: its run is left as it is).
Rerun(ev, r) ==
    /\ UNCHANGED review
    /\ \E run \in {main(session_state, ev, r)} :
        /\ session_state' = run.s
        /\ ui' = run.page

\* An action that counts against MaxExtras.
Extra ==
    /\ extras < MaxExtras
    /\ extras' = extras + 1

SetNumQuestions ==
    \E n \in SliderRange :
        /\ n <= MIN_QUESTIONS_PER_GAME + SliderSpan
        /\ n # session_state.num_questions
        /\ radio' = 0
        /\ UNCHANGED <<fifty_bought, extras>>
        /\ Rerun(Event("slider", n), 0)

NewGame ==
    \E r \in 0..(SampleDraws - 1) :
        /\ radio' = 0
        /\ fifty_bought' = 0
        /\ UNCHANGED extras
        /\ Rerun(Event("New game", 0), r)

Hint ==
    /\ ui.hint
    /\ Extra
    /\ radio' = 0
    /\ UNCHANGED fifty_bought
    /\ Rerun(Event("Hint", 0), 0)

Skip ==
    /\ ui.skip
    /\ Extra
    /\ radio' = 0
    /\ UNCHANGED fifty_bought
    /\ Rerun(Event("Skip", 0), 0)

Fifty ==
    /\ ui.fifty
    /\ Extra
    /\ radio' = 0
    /\ fifty_bought' = fifty_bought + 1
    /\ \E r \in 0..(FiftyDraws - 1) : Rerun(Event("50/50", 0), r)

\* Submit with the radio at selected_index.  The radio keeps the index of
\* the last Submit while the question is on the page (picking another
\* option is a run of its own, ChooseOption, which redraws the buttons);
\* before the first Submit the user has picked any of the options shown.
SubmitOption(selected_index) ==
    /\ ui.submit
    /\ selected_index \in 0..(ui.n_options - 1)
    /\ session_state.answered => selected_index = radio
    /\ IF session_state.answered THEN Extra ELSE UNCHANGED extras
    /\ radio' = selected_index
    /\ UNCHANGED fifty_bought
    /\ Rerun(Event("Submit", selected_index), 0)

Submit ==
    \E selected_index \in 0..(ui.n_options - 1) : SubmitOption(selected_index)

\* Picking an option in the radio: a run in which no button is clicked.
ChooseOption ==
    /\ ui.submit
    /\ radio' = 0
    /\ UNCHANGED <<fifty_bought, extras>>
    /\ Rerun(NoEvent, 0)

NextQuestion ==
    /\ ui.next
    /\ radio' = 0
    /\ UNCHANGED <<fifty_bought, extras>>
    /\ Rerun(Event("Next", 0), 0)

PlayAgain ==
    /\ ui.play_again
    /\ radio' = 0
    /\ fifty_bought' = 0
    /\ UNCHANGED extras
    /\ \E r \in 0..(SampleDraws - 1) : Rerun(Event("Play again", 0), r)

SelectMonster ==
    \E m \in ui.select :
        /\ radio' = 0
        /\ UNCHANGED <<fifty_bought, extras>>
        /\ Rerun(Event("Select", m), 0)

BuyMonster ==
    \E m \in ui.buy :
        /\ Extra
        /\ radio' = 0
        /\ UNCHANGED fifty_bought
        /\ Rerun(Event("Buy", m), 0)

Next ==
    \/ SetNumQuestions
    \/ NewGame
    \/ Hint
    \/ Skip
    \/ Fifty
    \/ Submit
    \/ ChooseOption
    \/ NextQuestion
    \/ PlayAgain
    \/ SelectMonster
    \/ BuyMonster

Spec == Init /\ [][Next]_vars

\* --------------------------------------------- a player who plays on
\* The steps of a player who does not give up a game in progress: New game
\* is pressed only while no question is on the page.  The Select buttons of
\* the monster shop, whose run changes selected_monster and nothing else,
\* are left out.
NewGameBetweenGames ==
    /\ ~(session_state.started
          /\ session_state.q_index < Len(session_state.question_ids))
    /\ NewGame

NextPlay ==
    \/ SetNumQuestions
    \/ NewGameBetweenGames
    \/ Hint
    \/ Skip
    \/ Fifty
    \/ Submit
    \/ ChooseOption
    \/ NextQuestion
    \/ PlayAgain
    \/ BuyMonster

\* Answering the question on the page: the first Submit of the question,
\* which leaves it answered.
AnswerQuestion ==
    /\ ~session_state.answered
    /\ session_state'.answered
    /\ Submit

\* Advancing: a Next, which moves the index on.
AdvanceQuestion ==
    /\ session_state'.q_index = session_state.q_index + 1
    /\ NextQuestion

\* The pages on which AnswerQuestion, resp. AdvanceQuestion, can be done: the
\* Submit button is there for an unanswered question, resp. the Next button
\* is there.  Both steps change session_state.
AnswerPossible == ui.submit /\ ~session_state.answered

NextPossible == ui.next

\* The player goes on answering and advancing: weak fairness of
\* AnswerQuestion and of AdvanceQuestion, WF_vars(A) written out as
\* []<>~ENABLED <<A>>_vars \/ []<><<A>>_vars with the enabling conditions
\* above.
SpecPlay ==
    /\ Init
    /\ [][NextPlay]_vars
    /\ ([]<>~AnswerPossible \/ []<><<AnswerQuestion>>_vars)
    /\ ([]<>~NextPossible \/ []<><<AdvanceQuestion>>_vars)

\* ------------------------------------------- actions of the code checker
arcade_vars == <<session_state, ui, radio, fifty_bought, extras>>

\* A click on Analyze with the widgets as the user has set them.
AnalyzeCode ==
    /\ review.pc = "idle"
    /\ \E code_input \in CodeInputs, api_key \in {"", "sk-..."},
          generate_refactor \in BOOLEAN, language_hint \in LanguageHints :
            review' = analyze_clicked(code_input, api_key, generate_refactor,
                                      language_hint)
    /\ UNCHANGED arcade_vars

\* The analysis call ends.
AnalysisReturns ==
    /\ review.pc = "analysis"
    /\ \E response \in AnalysisResponses :
            review' = analysis_returned(review, response)
    /\ UNCHANGED arcade_vars

\* The refactor call ends.
RefactorReturns ==
    /\ review.pc = "refactor"
    /\ \E response \in RefactorResponses :
            review' = refactor_returned(review, response)
    /\ UNCHANGED arcade_vars

NextReview ==
    \/ AnalyzeCode
    \/ AnalysisReturns
    \/ RefactorReturns

SpecReview == Init /\ [][NextReview]_vars

\* ------------------------------------------------- derived state predicates
\* The results screen is the one that is shown.
Finished ==
    /\ session_state.started
    /\ session_state.q_index >= Len(session_state.question_ids)

\* A question is the one that is shown.
InProgress ==
    /\ session_state.started
    /\ session_state.q_index < Len(session_state.question_ids)

\* The question on the page (only when InProgress).
CurrentQuestion ==
    get_question_by_id(session_state.question_ids[session_state.q_index + 1])

\* Nothing was bought in the current game: no Hint, Skip or 50/50 and no
\* monster (a monster bought in the game leaves its badge in the game's
\* badge set).
NothingSpent ==
    /\ session_state.hints_used = 0
    /\ session_state.skips_used = 0
    /\ fifty_bought = 0
    /\ BADGE_MONSTER_COLLECTOR \notin session_state.badges

\* A step that runs start_new_game: the New game or the Play again button.
StartGameStep == NewGame \/ PlayAgain

\* A 50/50 bought for a question is applied in the run of the purchase, so no
\* other run of the script draws from the random source.
FiftyAppliedAtPurchase ==
    InProgress =>
        ~("50/50" \in Range(session_state.shop_buys) /\ ~session_state.used_5050)

\* ------------------------------------------------------------------ claims

\* C1 (as claimed): in every reachable state the coin balance is >= 0.
C1_CoinsNeverNegative ==
    session_state.coins >= 0

\* C2 (as claimed): start_new_game leaves the coin balance as it was.
C2_CoinsPersistAcrossStart ==
    [][StartGameStep => session_state'.coins = session_state.coins]_vars

\* C2 (amended): start_new_game resets the coin balance to 0, whatever it was
\* (StartGameStep => coins' = 0, the cheaper disjunct written first).
C2_StartResetsCoins ==
    [][session_state'.coins = 0 \/ ~StartGameStep]_vars

\* C2 witness: a new game was started after a monster had been bought (the
\* purchase took coins earned in an earlier game, whose badge set is gone).
C2_Witness ==
    /\ session_state.started
    /\ session_state.q_index = 0
    /\ session_state.score = 0
    /\ session_state.coins = 0
    /\ session_state.monsters_owned # <<>>
    /\ BADGE_MONSTER_COLLECTOR \notin session_state.badges

\* A finished game of 7 questions with 7 correct submits in a row and
\* nothing spent.
PerfectGameOfSeven ==
    /\ Finished
    /\ Len(session_state.question_ids) = 7
    /\ session_state.score = 7
    /\ session_state.streak = 7
    /\ NothingSpent

\* C3 (as claimed): a 7-question game answered correctly throughout, nothing
\* spent, ends with exactly 55 coins.
C3_PerfectGameEarns55 ==
    PerfectGameOfSeven => session_state.coins = 55

\* C3 (amended): such a game ends with exactly 60 coins (6+7+8+9+10+10+10:
\* the reward is computed from the streak already incremented).
C3_PerfectGameEarns60 ==
    PerfectGameOfSeven => session_state.coins = 60

C3_Witness ==
    PerfectGameOfSeven /\ session_state.coins = 60

\* C4 (as claimed): when a game finishes in which 50/50 was bought at least
\* once, the badge set shown contains the 50/50 User badge.
C4_FiftyUserBadgeAtFinish ==
    [][(InProgress /\ Finished' /\ fifty_bought' > 0)
          => BADGE_5050_USER \in session_state'.badges]_vars

\* C5 (as claimed): while the results screen stays up, no action changes a
\* per-game field; Hint, Skip and 50/50 cannot be bought there.
C5_FinishedIsReadOnly ==
    [][(Finished /\ Finished')
          => /\ session_state'.score = session_state.score
             /\ session_state'.streak = session_state.streak
             /\ session_state'.hints_used = session_state.hints_used
             /\ session_state'.skips_used = session_state.skips_used
             /\ session_state'.answered = session_state.answered
             /\ session_state'.shop_buys = session_state.shop_buys
             /\ fifty_bought' = fifty_bought]_vars

\* clamp(n, lo, hi)
Clamp(n, lo, hi) == IF n < lo THEN lo ELSE IF n > hi THEN hi ELSE n

\* C6: start_new_game leaves a question order of exactly
\* clamp(num_questions, 3, min(10, bank size)) pairwise distinct ids, each the
\* id of a question of the bank (its lookup does not end in KeyError).
\* (StartGameStep => the order is as said, the cheaper disjunct first.)
C6_StartSamplesQuestionOrder ==
    [][(LET ids == session_state'.question_ids
        IN /\ Len(ids) = Clamp(session_state'.num_questions,
                               MIN_QUESTIONS_PER_GAME,
                               Min(MAX_QUESTIONS_PER_GAME, Len(QUESTION_POOL)))
           /\ Cardinality(Range(ids)) = Len(ids)
           /\ \A i \in 1..Len(ids) :
                /\ get_question_by_id(ids[i]) # KeyError
                /\ get_question_by_id(ids[i]).id = ids[i])
       \/ ~StartGameStep]_vars

\* C6 witness: a game started with the slider moved off its default.
C6_Witness ==
    /\ session_state.started
    /\ session_state.q_index = 0
    /\ session_state.num_questions # DEFAULT_NUM_QUESTIONS
    /\ Len(session_state.question_ids) = session_state.num_questions

\* C7 (as claimed): a Submit of an already answered question changes neither
\* score, streak, coins nor last_correct.
C7_SecondSubmitIsNoOp ==
    [][(Submit /\ session_state.answered)
          => /\ session_state'.score = session_state.score
             /\ session_state'.streak = session_state.streak
             /\ session_state'.coins = session_state.coins
             /\ session_state'.last_correct = session_state.last_correct]_vars

\* C8: a Submit maps the index chosen among the visible options back to the
\* original option index and compares it with answer_idx; a correct one adds
\* 1 to score and streak and BASE_COIN_REWARD + min(new streak,
\* MAX_STREAK_BONUS) coins (6 to 10); a wrong one sets streak to 0 and leaves
\* score and coins.
C8_SubmitScores ==
    [][\A i \in 0..3 : SubmitOption(i) =>
        LET visible == get_visible_option_indices(session_state, CurrentQuestion)
            is_correct == visible[i + 1] = CurrentQuestion.answer_idx
            earned == session_state'.coins - session_state.coins
        IN /\ session_state'.answered
           /\ session_state'.last_correct = (IF is_correct THEN "True" ELSE "False")
           /\ IF is_correct
              THEN /\ session_state'.score = session_state.score + 1
                   /\ session_state'.streak = session_state.streak + 1
                   /\ earned = BASE_COIN_REWARD
                                + Min(session_state.streak + 1, MAX_STREAK_BONUS)
                   /\ earned >= 6 /\ earned <= 10
              ELSE /\ session_state'.streak = 0
                   /\ session_state'.score = session_state.score
                   /\ earned = 0]_vars

\* C8 witness: a correct Submit after 50/50, where the index chosen among the
\* visible options is not the original index of the answer.
C8_Witness ==
    /\ InProgress
    /\ session_state.answered
    /\ session_state.last_correct = "True"
    /\ session_state.used_5050
    /\ radio # CurrentQuestion.answer_idx
    /\ session_state.streak >= 2

\* C9: an applied 50/50 has eliminated exactly min(2, number of wrong
\* options) option indices, all wrong: answer_idx is not eliminated and is
\* among the visible options.
C9_FiftyKeepsAnswer ==
    (InProgress /\ session_state.used_5050) =>
        LET wrong == Range(wrong_indices(CurrentQuestion))
        IN /\ session_state.eliminated_options \subseteq wrong
           /\ Cardinality(session_state.eliminated_options)
                = Min(2, Cardinality(wrong))
           /\ CurrentQuestion.answer_idx \notin session_state.eliminated_options
           /\ CurrentQuestion.answer_idx
                \in Range(get_visible_option_indices(session_state, CurrentQuestion))

C9_Witness ==
    /\ InProgress
    /\ session_state.used_5050
    /\ Cardinality(session_state.eliminated_options) = 2
    /\ Len(get_visible_option_indices(session_state, CurrentQuestion)) = 2

\* C10 (as claimed): a Skip attempted with coins < SKIP_COST, or on an
\* answered question, or with no game started, changes nothing.
C10_SkipRejected ==
    [][(Skip /\ (\/ session_state.coins < SKIP_COST
                 \/ session_state.answered
                 \/ ~session_state.started))
          => session_state' = session_state]_vars

\* C11 (as claimed): a Skip that is not one of the rejected ones (coins
\* cover SKIP_COST, the question is unanswered, a game is started) deducts
\* SKIP_COST, adds 1 to skips_used, sets streak to 0 and last_correct to
\* None, leaves score, and advances q_index by exactly 1 with the
\* per-question flags reset.
C11_SkipAdvances ==
    [][(Skip /\ session_state.coins >= SKIP_COST
             /\ ~session_state.answered
             /\ session_state.started)
          => /\ session_state'.coins = session_state.coins - SKIP_COST
             /\ session_state'.skips_used = session_state.skips_used + 1
             /\ session_state'.streak = 0
             /\ session_state'.last_correct = "None"
             /\ session_state'.score = session_state.score
             /\ session_state'.q_index = session_state.q_index + 1
             /\ ~session_state'.answered
             /\ ~session_state'.used_5050
             /\ session_state'.eliminated_options = {}
             /\ ~session_state'.show_hint
             /\ session_state'.shop_buys = <<>>]_vars

\* The same for the Skips of a question on the page: these do advance.
SkipOfQuestionAdvances ==
    [][(Skip /\ InProgress)
          => /\ session_state'.coins = session_state.coins - SKIP_COST
             /\ session_state'.skips_used = session_state.skips_used + 1
             /\ session_state'.streak = 0
             /\ session_state'.last_correct = "None"
             /\ session_state'.score = session_state.score
             /\ session_state'.q_index = session_state.q_index + 1
             /\ ~session_state'.answered
             /\ ~session_state'.used_5050
             /\ session_state'.eliminated_options = {}
             /\ ~session_state'.show_hint
             /\ session_state'.shop_buys = <<>>]_vars

\* The ids of the monsters of the shop.
ShopIds == {MONSTER_SHOP[i].id : i \in 1..Len(MONSTER_SHOP)}

\* C12: the Buy buttons that can be clicked are those of the monsters that
\* are not owned and whose price the coins cover; a Buy takes exactly the
\* price from the coins, appends the monster to monsters_owned, selects it
\* and leaves the Monster Collector badge in badges.  No other monster can be
\* bought.
C12_BuyMonster ==
    [][/\ ui.buy = {m \in ShopIds :
                      /\ m \notin Range(session_state.monsters_owned)
                      /\ session_state.coins >= get_monster(m).price}
       /\ BuyMonster =>
            \E m \in ShopIds :
                /\ m \notin Range(session_state.monsters_owned)
                /\ session_state.coins >= get_monster(m).price
                /\ session_state'.coins = session_state.coins - get_monster(m).price
                /\ session_state'.monsters_owned
                     = Append(session_state.monsters_owned, m)
                /\ session_state'.selected_monster = m
                /\ BADGE_MONSTER_COLLECTOR \in session_state'.badges]_vars

\* C12 witness: the claim's example.  Four answers right in a row earn 30
\* coins, a 50/50 leaves 25, and pep_snek (price 20) leaves 5.
C12_Witness ==
    /\ session_state.score = 4
    /\ session_state.streak = 4
    /\ fifty_bought = 1
    /\ session_state.hints_used = 0
    /\ session_state.skips_used = 0
    /\ session_state.monsters_owned = <<"pep_snek">>
    /\ session_state.selected_monster = "pep_snek"
    /\ BADGE_MONSTER_COLLECTOR \in session_state.badges
    /\ session_state.coins = 5

\* C13: selected_monster is None or one of monsters_owned, and the Select
\* buttons on the page are those of owned monsters only.
C13_SelectedIsOwned ==
    /\ \/ session_state.selected_monster = "None"
       \/ session_state.selected_monster \in Range(session_state.monsters_owned)
    /\ ui.select \subseteq Range(session_state.monsters_owned)

\* C13 witness: two monsters are owned and the one bought first was selected
\* again.
C13_Witness ==
    /\ Len(session_state.monsters_owned) = 2
    /\ session_state.selected_monster = session_state.monsters_owned[1]

\* C14: start_new_game leaves monsters_owned and selected_monster as they
\* were (StartGameStep => both unchanged, the cheaper disjunct first).
C14_StartKeepsMonsters ==
    [][(/\ session_state'.monsters_owned = session_state.monsters_owned
        /\ session_state'.selected_monster = session_state.selected_monster)
       \/ ~StartGameStep]_vars

\* C14 witness: a game just started by a player who owns two monsters and
\* has selected the first.
C14_Witness ==
    /\ session_state.started
    /\ session_state.q_index = 0
    /\ ~session_state.answered
    /\ session_state.coins = 0
    /\ session_state.badges = {}
    /\ session_state.monsters_owned = <<"pep_snek", "lint_lizard">>
    /\ session_state.selected_monster = "pep_snek"

\* The step that completes a game: the last question is left (by Next or by
\* Skip) and the results screen is drawn, which calls award_badges.
GameEnds == InProgress /\ Finished'

\* The inputs C15 names, for a session state s at the end of a game in which
\* 50/50 was bought (fifty_used) or not.
GameInputs(s, fifty_used) ==
    <<s.score, s.streak, s.hints_used, fifty_used,
      s.q_index = Len(s.question_ids)>>

\* The buttons of the page that leave the question on the page.
PageEvents ==
    (IF ui.hint THEN {Event("Hint", 0)} ELSE {})
    \cup (IF ui.fifty THEN {Event("50/50", 0)} ELSE {})
    \cup {Event("Buy", m) : m \in ui.buy}
    \cup {Event("Select", m) : m \in ui.select}

\* C15 (as claimed), for the pairs of games that are the same up to the page
\* of the answered last question, where one clicks Next and the other clicks
\* one more button of the page before Next: if both end with the same
\* (score, streak, hints_used, 50/50 used, completion flag), both end with
\* the same badge set.
C15_BadgesFunctionOfInputs ==
    (/\ InProgress
     /\ session_state.q_index = Len(session_state.question_ids) - 1
     /\ ui.next)
    => LET one == main(session_state, Event("Next", 0), 0).s
       IN \A e \in PageEvents :
            LET more == main(session_state, e, 0)
                other == main(more.s, Event("Next", 0), 0).s
            IN (/\ more.page.next
                /\ GameInputs(one, fifty_bought > 0)
                     = GameInputs(other, fifty_bought > 0 \/ e.w = "50/50"))
               => one.badges = other.badges

\* The badge set as a function of the final score, streak and hints_used, of
\* the completion flag and of whether a monster was bought in the game.
BadgesOf(score, streak, hints_used, completed, collector) ==
    (IF score >= BADGE_SCORE_APPRENTICE THEN {BADGE_APPRENTICE} ELSE {})
    \cup (IF score >= BADGE_SCORE_PRO THEN {BADGE_PRO} ELSE {})
    \cup (IF streak >= BADGE_STREAK_THRESHOLD THEN {BADGE_STREAK_MASTER} ELSE {})
    \cup (IF hints_used = 0 /\ completed THEN {BADGE_NO_HINT_HERO} ELSE {})
    \cup (IF collector THEN {BADGE_MONSTER_COLLECTOR} ELSE {})

\* C15 (amended): the badge set a game ends with is a function of the final
\* score, streak, hints_used and completion flag together with whether a
\* monster was bought in the game (the function is BadgesOf; whether 50/50
\* was used makes no difference to it).
C15_BadgesFunctionWithCollector ==
    [][GameEnds =>
        session_state'.badges
          = BadgesOf(session_state'.score, session_state'.streak,
                     session_state'.hints_used,
                     session_state'.q_index = Len(session_state'.question_ids),
                     BADGE_MONSTER_COLLECTOR \in session_state.badges)]_vars

\* C15 witness: a game of 3 questions ended with the streak and no-hint
\* badges and with the badge of a monster bought in it.
C15_Witness ==
    /\ Finished
    /\ Len(session_state.question_ids) = 3
    /\ session_state.badges
         = {BADGE_STREAK_MASTER, BADGE_NO_HINT_HERO, BADGE_MONSTER_COLLECTOR}
    /\ session_state.hints_used = 0
    /\ session_state.skips_used = 0

\* C16: on the results screen the badge set has PEP Apprentice exactly when
\* score >= 5 and PEP Pro exactly when score >= 7.
C16_ScoreBadges ==
    Finished =>
        /\ BADGE_APPRENTICE \in session_state.badges
             <=> session_state.score >= BADGE_SCORE_APPRENTICE
        /\ BADGE_PRO \in session_state.badges
             <=> session_state.score >= BADGE_SCORE_PRO

\* C16 witness: a game of 7 questions, each answered right once, has both.
C16_Witness ==
    /\ Finished
    /\ Len(session_state.question_ids) = 7
    /\ session_state.score = 7
    /\ extras = 0
    /\ BADGE_APPRENTICE \in session_state.badges
    /\ BADGE_PRO \in session_state.badges

\* C17: the game ends with the Streak Master badge exactly when the streak at
\* that moment is >= 3 (so not for a streak that a later wrong answer or skip
\* has reset), and the results screen neither adds nor removes it.
C17_StreakMasterByFinalStreak ==
    [][/\ GameEnds =>
            (BADGE_STREAK_MASTER \in session_state'.badges
               <=> session_state'.streak >= BADGE_STREAK_THRESHOLD)
       /\ (Finished /\ Finished') =>
            (BADGE_STREAK_MASTER \in session_state'.badges
               <=> BADGE_STREAK_MASTER \in session_state.badges)]_vars

\* C17 witness: a game of 7 questions with the first six answered right (a
\* streak of 6) and the last one wrong ends without the badge.
C17_Witness ==
    /\ Finished
    /\ Len(session_state.question_ids) = 7
    /\ session_state.score = 6
    /\ session_state.streak = 0
    /\ session_state.skips_used = 0
    /\ extras = 0
    /\ BADGE_STREAK_MASTER \notin session_state.badges

\* C18: the game ends with the No-Hint Hero badge exactly when hints_used = 0
\* and q_index = len(question_ids); a game in which a Hint was bought before
\* it ended has the badge neither while it is played nor at its end nor
\* later on the results screen.
C18_NoHintHero ==
    [][/\ InProgress => BADGE_NO_HINT_HERO \notin session_state.badges
       /\ GameEnds =>
            (BADGE_NO_HINT_HERO \in session_state'.badges
               <=> (/\ session_state'.hints_used = 0
                    /\ session_state'.q_index = Len(session_state'.question_ids)))
       /\ (Finished /\ Finished'
             /\ BADGE_NO_HINT_HERO \notin session_state.badges)
            => BADGE_NO_HINT_HERO \notin session_state'.badges]_vars

\* C18 witness: a game ended after a Hint was bought in it, without the badge.
C18_Witness ==
    /\ Finished
    /\ session_state.hints_used = 1
    /\ session_state.score >= 2
    /\ BADGE_NO_HINT_HERO \notin session_state.badges

\* The reward for a right answer that brings the streak of the session to
\* the given value.
reward(streak) == coins_for_correct([session_state EXCEPT !.streak = streak])

\* C19: in every state, for every streak from 0 to MaxStreak the reward is
\* at least BASE_COIN_REWARD, at most BASE_COIN_REWARD + MAX_STREAK_BONUS, and
\* not more than the reward of the next streak.
C19_RewardMonotonicBounded ==
    \A streak \in 0..MaxStreak :
        /\ BASE_COIN_REWARD <= reward(streak)
        /\ reward(streak) <= BASE_COIN_REWARD + MAX_STREAK_BONUS
        /\ reward(streak) <= reward(streak + 1)

\* C19 witness: a right answer was rewarded at a streak beyond
\* MAX_STREAK_BONUS, where the bonus is capped.
C19_Witness ==
    /\ InProgress
    /\ session_state.answered
    /\ session_state.last_correct = "True"
    /\ session_state.streak > MAX_STREAK_BONUS
    /\ extras = 0
    /\ session_state.coins = 50

\* C20: in a run of the code checker a refactor request is sent only after
\* the analysis call returned a content that parses to a non-empty value;
\* when the analysis call raises or its content does not parse, no refactor
\* request is sent and no results are drawn; and one click on Analyze sends
\* at most one analysis request and at most one refactor request.
AnalysisFailed ==
    \/ review.analysis_response = "raised"
    \/ /\ review.analysis_response # "none"
       /\ json_loads(review.analysis_response).raises

C20_RefactorOnlyAfterAnalysis ==
    /\ review.refactor_requests > 0 =>
          /\ review.analysis_requests = 1
          /\ review.analysis_response \notin {"none", "raised"}
          /\ ~json_loads(review.analysis_response).raises
          /\ truthy(review.analysis_result)
          /\ review.analysis_result = json_loads(review.analysis_response).value
    /\ AnalysisFailed =>
          /\ review.refactor_requests = 0
          /\ ~review.rendered
          /\ review.pc = "idle"
    /\ review.analysis_requests <= 1
    /\ review.refactor_requests <= 1

\* The analysis call raised in a run that asked for the refactored code: the
\* run is over, with the error shown, no refactor request and no results.
C20_Witness ==
    /\ review.analysis_response = "raised"
    /\ review.generate_refactor
    /\ review.analysis_requests = 1
    /\ review.errors = 1
    /\ review.outcome = "no result"
    /\ review.refactor_requests = 0
    /\ ~review.rendered

\* The bands of the score interpretation that the sidebar documents.
SCORE_INTERPRETATION ==
    << [lo |-> 0, hi |-> 39, label |-> "Poor"],
       [lo |-> 40, hi |-> 59, label |-> "Below average"],
       [lo |-> 60, hi |-> 79, label |-> "Acceptable"],
       [lo |-> 80, hi |-> 89, label |-> "Good"],
       [lo |-> 90, hi |-> 100, label |-> "Excellent"] >>

\* The documented bands that hold a score.
bands_of(score) ==
    {i \in DOMAIN SCORE_INTERPRETATION :
        /\ SCORE_INTERPRETATION[i].lo <= score
        /\ score <= SCORE_INTERPRETATION[i].hi}

\* C21: every overall score in 0..100 lies in exactly one documented band
\* (0-39 Poor, 40-59 Below average, 60-79 Acceptable, 80-89 Good, 90-100
\* Excellent), and the quality level drawn for a score in 0..100 is the
\* label of that band.
C21_QualityBands ==
    /\ \A score \in 0..100 : Cardinality(bands_of(score)) = 1
    /\ (review.rendered /\ review.overall_score \in 0..100) =>
          \A i \in bands_of(review.overall_score) :
              /\ review.quality_label = SCORE_INTERPRETATION[i].label
              /\ review.quality_label
                    = get_quality_level(review.overall_score).label

\* The results of an analysis whose overall score is 40, the lowest score
\* of its band, are on the page.
C21_Witness ==
    /\ review.rendered
    /\ review.analysis_response = score_document(40)
    /\ review.overall_score = 40
    /\ review.quality_label = "Below average"

\* C22: the Next button can be pressed only when answered is true; its run
\* increments q_index by exactly 1, resets answered, used_5050,
\* eliminated_options, show_hint and shop_buys, and leaves score, coins,
\* streak, hints_used and skips_used unchanged.
C22_NextAdvances ==
    [][ \/ /\ session_state.answered
           /\ session_state'.q_index = session_state.q_index + 1
           /\ ~session_state'.answered
           /\ ~session_state'.used_5050
           /\ session_state'.eliminated_options = {}
           /\ ~session_state'.show_hint
           /\ session_state'.shop_buys = <<>>
           /\ session_state'.score = session_state.score
           /\ session_state'.coins = session_state.coins
           /\ session_state'.streak = session_state.streak
           /\ session_state'.hints_used = session_state.hints_used
           /\ session_state'.skips_used = session_state.skips_used
        \/ ~NextQuestion ]_vars

\* The third question is on the page after two correct answers, the hint of
\* the second question bought and no longer shown.
C22_Witness ==
    /\ InProgress
    /\ session_state.q_index = 2
    /\ session_state.score = 2
    /\ session_state.hints_used = 1
    /\ extras = 1
    /\ ~session_state.show_hint
    /\ ~session_state.answered
    /\ session_state.shop_buys = <<>>

\* C23 (as claimed): for a question in progress 50/50 is bought at most once
\* and applied exactly once: a purchase happens only while used_5050 is
\* false, after it the pending "50/50" entry is consumed, used_5050 is true
\* and the 50/50 button is disabled; and no later step on the same question
\* (hint, submit, re-render) changes used_5050 or eliminated_options.
C23_FiftyOncePerQuestion ==
    [][ /\ \/ ~InProgress
           \/ ~session_state.used_5050
           \/ /\ session_state'.eliminated_options = session_state.eliminated_options
              /\ session_state'.used_5050
           \/ session_state'.q_index # session_state.q_index
           \/ StartGameStep
        /\ \/ ~InProgress
           \/ /\ ~session_state.used_5050
              /\ session_state'.used_5050
              /\ "50/50" \notin Range(session_state'.shop_buys)
              /\ ~ui'.fifty
           \/ ~Fifty ]_vars

\* The part of C23 that holds: once applied to a question, the eliminated
\* options stay as they are until the question is left.
FiftyNotResampled ==
    [][ \/ ~InProgress
        \/ ~session_state.used_5050
        \/ /\ session_state'.eliminated_options = session_state.eliminated_options
           /\ session_state'.used_5050
        \/ session_state'.q_index # session_state.q_index
        \/ StartGameStep ]_vars

\* What a run of the Hint handler does and leaves alone: HINT_COST coins
\* less, one more hint used, the hint shown; the options on the page,
\* eliminated_options, used_5050, score, streak, answered and q_index as
\* they were.
HintEffects ==
    /\ session_state'.coins = session_state.coins - HINT_COST
    /\ session_state'.hints_used = session_state.hints_used + 1
    /\ session_state'.show_hint
    /\ ui'.n_options = ui.n_options
    /\ session_state'.eliminated_options = session_state.eliminated_options
    /\ session_state'.used_5050 = session_state.used_5050
    /\ session_state'.score = session_state.score
    /\ session_state'.streak = session_state.streak
    /\ session_state'.answered = session_state.answered
    /\ session_state'.q_index = session_state.q_index

\* C24 (as claimed): a Hint is bought only with coins >= HINT_COST, the game
\* started and the question not answered; the purchase deducts HINT_COST
\* coins, increments hints_used and sets show_hint, and changes none of the
\* visible options, eliminated_options, used_5050, score, streak, answered
\* and q_index.
C24_HintPurchase ==
    [][ \/ /\ session_state.coins >= HINT_COST
           /\ session_state.started
           /\ ~session_state.answered
           /\ HintEffects
        \/ ~Hint ]_vars

\* The part of C24 that holds: the effects and the frame of every Hint
\* purchase, whatever the state it is made in.
HintPurchaseEffects ==
    [][HintEffects \/ ~Hint]_vars

\* C25: within a game the coin balance increases only in a Submit of the
\* correct option; Hint, Skip and 50/50 each lower it by their cost in the
\* run of the purchase; no other step (advancing, answering wrongly,
\* finishing, re-rendering, the monster shop) raises it.
C25_CoinsNeverRefunded ==
    [][ /\ \/ session_state'.coins <= session_state.coins
           \/ /\ session_state'.last_correct = "True"
              /\ session_state'.score = session_state.score + 1
              /\ session_state'.coins
                    = session_state.coins + coins_for_correct(session_state')
              /\ Submit
           \/ StartGameStep
        /\ session_state'.coins = session_state.coins - HINT_COST \/ ~Hint
        /\ session_state'.coins = session_state.coins - SKIP_COST \/ ~Skip
        /\ session_state'.coins = session_state.coins - FIFTY_FIFTY_COST \/ ~Fifty
      ]_vars

\* The second question was answered wrongly after its hint was bought with
\* the 6 coins of the first answer: the 3 coins spent are not back.
C25_Witness ==
    /\ InProgress
    /\ session_state.q_index = 1
    /\ session_state.score = 1
    /\ session_state.hints_used = 1
    /\ extras = 1
    /\ session_state.answered
    /\ session_state.last_correct = "False"
    /\ session_state.coins = 3

\* C26: in every state of a started game 0 <= q_index <= len(question_ids),
\* and q_index = len(question_ids) exactly when the results screen is the
\* page shown; no step, Skip and Next included, takes q_index past
\* len(question_ids).
C26_IndexInRange ==
    session_state.started =>
        /\ 0 <= session_state.q_index
        /\ session_state.q_index <= Len(session_state.question_ids)
        /\ session_state.q_index = Len(session_state.question_ids)
              <=> ui.play_again
        /\ session_state.q_index < Len(session_state.question_ids)
              <=> ui.n_options > 0

\* The results screen reached by skipping the last of three questions.
C26_Witness ==
    /\ session_state.started
    /\ Len(session_state.question_ids) = 3
    /\ session_state.q_index = 3
    /\ session_state.last_correct = "None"
    /\ ~session_state.answered
    /\ session_state.skips_used = 1
    /\ extras = 1
    /\ ui.play_again

\* C27: within one game the badge set only grows (no step takes a badge
\* out of it), and a step that starts a game leaves it empty.
C27_BadgesGrowWithinGame ==
    [][ /\ session_state.badges \subseteq session_state'.badges \/ StartGameStep
        /\ session_state'.badges = {} \/ ~StartGameStep ]_vars

\* A game in progress with an empty badge set and a monster owned: the
\* Monster Collector badge of the purchase went with the start of this game.
C27_Witness ==
    /\ InProgress
    /\ session_state.monsters_owned # <<>>
    /\ session_state.badges = {}

\* C28: award_badges runs in every run that draws the results screen, and
\* each evaluation after the first of a finished game leaves the badge set
\* as it is: the state a run leaves on the results screen is a fixed point
\* of award_badges, and a step from the results screen to the results
\* screen changes the set by nothing but the badge of a monster purchase.
C28_AwardBadgesIdempotent ==
    [][ /\ Finished' =>
              award_badges(session_state').badges = session_state'.badges
        /\ (Finished /\ Finished') =>
              \/ session_state'.badges = session_state.badges
              \/ /\ session_state'.badges
                       = session_state.badges \cup {BADGE_MONSTER_COLLECTOR}
                 /\ BuyMonster ]_vars

\* The results screen drawn again after a hint was bought on it: the
\* No-Hint Hero badge of the first evaluation is still there.
C28_Witness ==
    /\ Finished
    /\ session_state.hints_used = 1
    /\ session_state.show_hint
    /\ BADGE_NO_HINT_HERO \in session_state.badges

\* C29 (as claimed): in every reachable state
\* 0 <= streak <= score <= len(question_ids).
C29_StreakScoreBounds ==
    /\ 0 <= session_state.streak
    /\ session_state.streak <= session_state.score
    /\ session_state.score <= Len(session_state.question_ids)

\* The part of C29 that holds: the streak is never negative and never above
\* the score.
StreakWithinScore ==
    /\ 0 <= session_state.streak
    /\ session_state.streak <= session_state.score

\* C30: within one game q_index never decreases and changes only by +1,
\* in a step from an answered question (Next) or in the run of a Skip (the
\* automatic advance); and a game in progress whose player goes on
\* answering and advancing reaches the results screen.
C30_GameFinishes ==
    /\ [][ \/ session_state'.q_index = session_state.q_index
           \/ /\ session_state'.q_index = session_state.q_index + 1
              /\ \/ session_state.answered /\ ui.next
                 \/ session_state'.skips_used = session_state.skips_used + 1
           \/ StartGameStep ]_vars
    /\ InProgress ~> Finished

\* The enabling conditions of the player's two steps are those of the
\* script: on such a page the click starts a run that changes the state.
PlayerStepsPossible ==
    /\ AnswerPossible =>
          /\ ui.n_options > 0
          /\ \A i \in 0..(ui.n_options - 1) :
                main(session_state, Event("Submit", i), 0).s.answered
    /\ NextPossible =>
          main(session_state, Event("Next", 0), 0).s.q_index
              = session_state.q_index + 1

\* The results screen of a game of seven questions, one of them skipped and
\* one answered wrongly.
C30_Witness ==
    /\ Finished
    /\ Len(session_state.question_ids) = 7
    /\ session_state.q_index = 7
    /\ session_state.score = 5
    /\ session_state.skips_used = 1
    /\ extras = 1

====
